---- MODULE Spec2Model ----
(***************************************************************************)
(* Model of ui/desktop/src/components/settings/api_keys/utils.tsx:         *)
(* getProvidersList, getSecretsSettings and getActiveProviders.            *)
(*                                                                         *)
(* Each invocation of getActiveProviders is a chain of three async         *)
(* functions.  The chain suspends at `await fetch(...)` twice and resumes  *)
(* the awaiting caller when the callee's promise settles; these are the    *)
(* steps of the model.  The backend is outside the program: what a fetch   *)
(* settles with is an input of the step.                                   *)
(***************************************************************************)
EXTENDS Naturals, Sequences, FiniteSets

\* ------------------------------------------------------------------ bounds
MaxInv == 2       \* concurrent invocations of getActiveProviders
MaxItems == 2     \* raw entries in a catalog body (SpecCatalog)
MaxEntries == 2   \* entries in a secrets-status mapping (SpecSecrets)

Inv == 1..MaxInv

\* --------------------------------------------------------- JS values
\* An optional property: None is `undefined` (the property is absent),
\* Some(v) a present value.
None == <<>>
Some(v) == <<v>>

\* a || b where a is a string or undefined: "" and undefined are falsy.
OrString(a, b) == IF a = None \/ a[1] = "" THEN b ELSE a[1]
\* a || b where a is an array or undefined: every array, [] too, is truthy.
OrArray(a, b) == IF a = None THEN b ELSE a[1]

\* The result of a call of an async function: its promise is pending,
\* fulfilled with a value, or rejected with an error.
Pending == [kind |-> "pending"]
Return(v) == [kind |-> "value", value |-> v]
Throw(e) == [kind |-> "error", error |-> e]

\* What fetch rejects with on a network-level failure (platform error).
NetworkError == [class |-> "TypeError", message |-> "Failed to fetch"]
\* What response.json() rejects with on a body that is not JSON.
JsonSyntaxError == [class |-> "SyntaxError", message |-> "Unexpected token"]
\* What the engine throws on data.map of a non-array, item.id of null,
\* Object.values(null), provider.secret_status of null.
ShapeTypeError == [class |-> "TypeError", message |-> "not a function or null"]

\* A settled fetch: rejected, or a response with a status line and a body
\* (json |-> "invalid": json() rejects; json |-> "value": it yields value).
Rejected == [type |-> "reject"]
Response(status, statusText, body) ==
    [type |-> "response", status |-> status, statusText |-> statusText, body |-> body]
InvalidJson == [json |-> "invalid"]
Json(v) == [json |-> "value", value |-> v]
ok(r) == r.status >= 200 /\ r.status <= 299

JsonNull == [t |-> "null"]
JsonArray(items) == [t |-> "array", items |-> items]
JsonObject(entries) == [t |-> "object", entries |-> entries]

\* ------------------------------------------------ getProvidersList (58-79)
RawItem(id, details) == [t |-> "object", id |-> id, details |-> details]
Details(name, description, models, required_keys) ==
    [name |-> name, description |-> description, models |-> models,
     required_keys |-> required_keys]

\* item.details?.f
DetailField(item, f) == IF item.details = None THEN None ELSE item.details[1][f]

formatProviderKeysFromModels(item) ==
    [id |-> item.id,
     name |-> OrString(DetailField(item, "name"), "Unknown Provider"),
     description |-> OrString(DetailField(item, "description"), "No description available."),
     models |-> OrArray(DetailField(item, "models"), <<>>),
     requiredKeys |-> OrArray(DetailField(item, "models"), <<>>)]

formatProviderAllOrNothing(item) ==
    LET complete == /\ item.details # None
                    /\ \A f \in {"name", "description", "models", "required_keys"} :
                          item.details[1][f] # None
    IN  [id |-> item.id,
         name |-> IF complete THEN OrString(DetailField(item, "name"), "Unknown Provider")
                  ELSE "Unknown Provider",
         description |-> IF complete
                         THEN OrString(DetailField(item, "description"), "No description available.")
                         ELSE "No description available.",
         models |-> IF complete THEN OrArray(DetailField(item, "models"), <<>>) ELSE <<>>,
         requiredKeys |-> IF complete THEN OrArray(DetailField(item, "required_keys"), <<>>)
                          ELSE <<>>]

\* lines 72-78, the callback of data.map
formatProvider(item) ==
    [id |-> item.id,
     name |-> OrString(DetailField(item, "name"), "Unknown Provider"),
     description |-> OrString(DetailField(item, "description"), "No description available."),
     models |-> OrArray(DetailField(item, "models"), <<>>),
     requiredKeys |-> OrArray(DetailField(item, "required_keys"), <<>>)]

\* line 72: data.map(...) throws unless data is an array of non-null items
mapProviders(data) ==
    IF data.t # "array" THEN Throw(ShapeTypeError)
    ELSE IF \E i \in 1..Len(data.items) : data.items[i].t = "null" THEN Throw(ShapeTypeError)
    ELSE Return([i \in 1..Len(data.items) |-> formatProvider(data.items[i])])

getProvidersListParseFirst(r) ==
    IF r.type = "reject" THEN Throw(NetworkError)
    ELSE IF r.body.json = "invalid" THEN Throw(JsonSyntaxError)
    ELSE IF ~ok(r)
         THEN Throw([class |-> "Error",
                     message |-> "Failed to fetch providers: " \o r.statusText])
    ELSE mapProviders(r.body.value)

\* What getProvidersList settles with when its fetch settles with r.
getProvidersList(r) ==
    IF r.type = "reject" THEN Throw(NetworkError)
    ELSE IF ~ok(r)
         THEN Throw([class |-> "Error",
                     message |-> "Failed to fetch providers: " \o r.statusText])
    ELSE IF r.body.json = "invalid" THEN Throw(JsonSyntaxError)
    ELSE mapProviders(r.body.value)

\* ---------------------------------------------- getSecretsSettings (31-55)
\* getSecretKey() of ../../../config: an opaque configuration lookup.
getSecretKey == "configured-secret-key"

\* line 59-61: fetch(getApiUrl("/agent/providers"), {method: "GET"})
GetRequest ==
    [method |-> "GET", url |-> "/agent/providers", headers |-> {}, body |-> None]

PostRequestDistinctIds(ids) ==
    [method |-> "POST", url |-> "/secrets/providers",
     headers |-> {<<"Content-Type", "application/json">>, <<"X-Secret-Key", getSecretKey>>},
     body |-> Some([providers |->
                 LET firsts == SelectSeq([i \in 1..Len(ids) |-> <<i, ids[i]>>],
                                   LAMBDA x : \A j \in 1..(x[1] - 1) : ids[j] # x[2])
                 IN  [i \in 1..Len(firsts) |-> firsts[i][2]]])]

\* lines 37-46: the POST; the body is JSON.stringify({providers: providerIds}),
\* kept as the object the server parses back (a sequence of strings
\* survives JSON text unchanged).
PostRequest(ids) ==
    [method |-> "POST", url |-> "/secrets/providers",
     headers |-> {<<"Content-Type", "application/json">>, <<"X-Secret-Key", getSecretKey>>},
     body |-> Some([providers |-> ids])]

\* lines 48-54: what getSecretsSettings settles with when its fetch settles with r.
getSecretsSettings(r) ==
    IF r.type = "reject" THEN Throw(NetworkError)
    ELSE IF ~ok(r) THEN Throw([class |-> "Error", message |-> "Failed to fetch secrets"])
    ELSE IF r.body.json = "invalid" THEN Throw(JsonSyntaxError)
    ELSE Return(r.body.value)

\* ----------------------------------------------- getActiveProviders (4-29)
ProviderResponse(name, secret_status) ==
    [t |-> "object", name |-> name, secret_status |-> secret_status]
SecretStatus(key, is_set) == [key |-> key, is_set |-> is_set]
Entry(key, value) == [key |-> key, value |-> value]

isActiveEvery(provider) ==
    LET apiKeyStatus == OrArray(provider.secret_status, <<>>)
    IN  \A i \in 1..Len(apiKeyStatus) : apiKeyStatus[i].is_set

\* lines 16-19, the callback of filter: Object.values(provider.secret_status || {})
\* .some((key) => key.is_set)
isActive(provider) ==
    LET apiKeyStatus == OrArray(provider.secret_status, <<>>)
    IN  \E i \in 1..Len(apiKeyStatus) : apiKeyStatus[i].is_set

\* line 20, the callback of map
providerName(provider) == OrString(provider.name, "Unknown Provider")

\* lines 15-20: Object.values(secretsSettings).filter(...).map(...)
filterActive(secretsSettings) ==
    IF secretsSettings.t = "null" THEN Throw(ShapeTypeError)
    ELSE IF \E i \in 1..Len(secretsSettings.entries) :
                secretsSettings.entries[i].value.t = "null"
         THEN Throw(ShapeTypeError)
    ELSE LET values == [i \in 1..Len(secretsSettings.entries) |->
                            secretsSettings.entries[i].value]
             kept == SelectSeq(values, isActive)
         IN  Return([i \in 1..Len(kept) |-> providerName(kept[i])])

\* ------------------------------------------------------------------ state
VARIABLES
    pc,               \* where each invocation of getActiveProviders stands
    sent,             \* the requests each invocation has issued, in order
    response,         \* getProvidersList's `response` (line 59), once settled
    listResult,       \* what `await getProvidersList()` settles with (line 32)
    secretsResponse,  \* getSecretsSettings's `response` (line 37), once settled
    secretsResult,    \* what `await getSecretsSettings()` settles with (line 10)
    activeResult,     \* what getActiveProviders settles with
    errorLogged       \* console.error of line 26 was called

vars == <<pc, sent, response, listResult, secretsResponse, secretsResult,
          activeResult, errorLogged>>

Init ==
    /\ pc = [p \in Inv |-> "idle"]
    /\ sent = [p \in Inv |-> <<>>]
    /\ response = [p \in Inv |-> None]
    /\ listResult = [p \in Inv |-> Pending]
    /\ secretsResponse = [p \in Inv |-> None]
    /\ secretsResult = [p \in Inv |-> Pending]
    /\ activeResult = [p \in Inv |-> Pending]
    /\ errorLogged = [p \in Inv |-> FALSE]

\* ---------------------------------------------------------------- actions
\* A call of getActiveProviders runs synchronously through lines 4-10, 31-32
\* and 58-61 up to the first await: the GET is issued.
Call(p) ==
    /\ pc[p] = "idle"
    /\ sent' = [sent EXCEPT ![p] = Append(@, GetRequest)]
    /\ pc' = [pc EXCEPT ![p] = "fetchingProviders"]
    /\ UNCHANGED <<response, listResult, secretsResponse, secretsResult,
                   activeResult, errorLogged>>

\* The GET settles with one of `answers`, r; getProvidersList runs lines
\* 63-78 and settles.
ProvidersFetched(p, answers) ==
    /\ pc[p] = "fetchingProviders"
    /\ \E r \in answers :
          /\ response' = [response EXCEPT ![p] = Some(r)]
          /\ listResult' = [listResult EXCEPT ![p] = getProvidersList(r)]
    /\ pc' = [pc EXCEPT ![p] = "listed"]
    /\ UNCHANGED <<sent, secretsResponse, secretsResult, activeResult, errorLogged>>

providerIdsShared(p) ==
    LET have == {q \in Inv : listResult[q].kind = "value"}
        first == CHOOSE q \in have : \A o \in have : q <= o
    IN  [i \in 1..Len(listResult[first].value) |-> listResult[first].value[i].id]

\* line 34: providerList.map((provider) => provider.id)
providerIds(p) ==
    [i \in 1..Len(listResult[p].value) |-> listResult[p].value[i].id]

SecretsResumesPostsAnyway(p) ==
    /\ pc[p] = "listed"
    /\ sent' = [sent EXCEPT ![p] =
                   Append(@, PostRequest(IF listResult[p].kind = "value"
                                         THEN providerIds(p) ELSE <<>>))]
    /\ pc' = [pc EXCEPT ![p] = "fetchingSecrets"]
    /\ UNCHANGED <<response, listResult, secretsResponse, secretsResult,
                   activeResult, errorLogged>>

\* getSecretsSettings resumes at line 32: a rejection of getProvidersList
\* leaves the function at once with that error; otherwise lines 34-46 issue
\* the POST.
SecretsResumes(p) ==
    /\ pc[p] = "listed"
    /\ IF listResult[p].kind = "error"
       THEN /\ secretsResult' = [secretsResult EXCEPT ![p] = listResult[p]]
            /\ pc' = [pc EXCEPT ![p] = "settled"]
            /\ UNCHANGED sent
       ELSE /\ sent' = [sent EXCEPT ![p] = Append(@, PostRequest(providerIds(p)))]
            /\ pc' = [pc EXCEPT ![p] = "fetchingSecrets"]
            /\ UNCHANGED secretsResult
    /\ UNCHANGED <<response, listResult, secretsResponse, activeResult, errorLogged>>

\* The POST settles with one of `answers`, r; getSecretsSettings runs lines
\* 48-54 and settles.
SecretsFetched(p, answers) ==
    /\ pc[p] = "fetchingSecrets"
    /\ \E r \in answers :
          /\ secretsResponse' = [secretsResponse EXCEPT ![p] = Some(r)]
          /\ secretsResult' = [secretsResult EXCEPT ![p] = getSecretsSettings(r)]
    /\ pc' = [pc EXCEPT ![p] = "settled"]
    /\ UNCHANGED <<sent, response, listResult, activeResult, errorLogged>>

activeProvidersAccumulated(p) ==
    LET mine == filterActive(secretsResult[p].value)
        earlier == {q \in Inv : pc[q] = "done" /\ activeResult[q].kind = "value"}
        last == CHOOSE q \in earlier : \A o \in earlier : q >= o
    IN  IF mine.kind = "value" /\ earlier # {}
        THEN Return(activeResult[last].value \o mine.value)
        ELSE mine

activeProvidersInCatalog(p) ==
    LET s == secretsResult[p].value
    IN  IF s.t = "null" THEN filterActive(s)
        ELSE filterActive(JsonObject(SelectSeq(s.entries,
                 LAMBDA e : \E i \in 1..Len(listResult[p].value) :
                                listResult[p].value[i].id = e.key)))

\* lines 15-20 on the invocation's own secretsSettings
activeProviders(p) == filterActive(secretsResult[p].value)

ActiveResumesNoCatch(p) ==
    /\ pc[p] = "settled"
    /\ activeResult' = [activeResult EXCEPT ![p] =
                           IF secretsResult[p].kind = "error" THEN secretsResult[p]
                           ELSE activeProviders(p)]
    /\ pc' = [pc EXCEPT ![p] = "done"]
    /\ UNCHANGED <<sent, response, listResult, secretsResponse, secretsResult, errorLogged>>

\* getActiveProviders resumes at line 10 inside its try block: lines 15-24
\* return the names; anything thrown (by the await or by lines 15-20) is
\* caught at line 25, logged, and [] is returned.
ActiveResumes(p) ==
    /\ pc[p] = "settled"
    /\ LET thrown == \/ secretsResult[p].kind = "error"
                     \/ activeProviders(p).kind = "error"
       IN  /\ activeResult' = [activeResult EXCEPT ![p] =
                                  IF thrown THEN Return(<<>>) ELSE activeProviders(p)]
           /\ errorLogged' = [errorLogged EXCEPT ![p] = thrown]
    /\ pc' = [pc EXCEPT ![p] = "done"]
    /\ UNCHANGED <<sent, response, listResult, secretsResponse, secretsResult>>

\* ------------------------------------------------ what the backend answers
\* Nothing of the backend is in the program; these are the answers the
\* steps are checked against.
SeqsUpTo(S, n) == UNION {[1..k -> S] : k \in 0..n}

OpenAiItem ==
    RawItem("openai", Some(Details(Some("OpenAI"), Some("GPT models"),
                                   Some(<<"gpt-4">>), Some(<<"OPENAI_API_KEY">>))))
CohereItem == RawItem("cohere", None)

\* Answers of GET /agent/providers in Spec: a network failure, non-success
\* statuses (with a JSON and with a non-JSON body), success with a body that
\* is not JSON, not an array, an array holding null, and proper catalogs
\* (empty, an entry with and one without details, a repeated id).
CatalogResponses ==
    { Rejected,
      Response(500, "Internal Server Error", InvalidJson),
      Response(404, "Not Found", Json(JsonArray(<<OpenAiItem>>))),
      Response(200, "OK", InvalidJson),
      Response(200, "OK", Json(JsonObject(<<>>))),
      Response(200, "OK", Json(JsonArray(<<OpenAiItem, JsonNull>>))),
      Response(200, "OK", Json(JsonArray(<<>>))),
      Response(200, "OK", Json(JsonArray(<<OpenAiItem, CohereItem>>))),
      Response(200, "OK", Json(JsonArray(<<CohereItem, OpenAiItem, CohereItem>>))) }

KeySet == Some(<<SecretStatus("OPENAI_API_KEY", TRUE)>>)
KeyUnset == Some(<<SecretStatus("COHERE_API_KEY", FALSE)>>)

\* Answers of POST /secrets/providers in Spec: a network failure, non-success
\* statuses, success with a body that is not JSON, that is null, a mapping
\* holding null, and proper mappings (empty; the example of the
\* documentation; entries the catalog does not have, sharing one name).
SecretsResponses ==
    { Rejected,
      Response(500, "Internal Server Error", InvalidJson),
      Response(401, "Unauthorized",
               Json(JsonObject(<<Entry("openai", ProviderResponse(Some("OpenAI"), KeySet))>>))),
      Response(200, "OK", InvalidJson),
      Response(200, "OK", Json(JsonNull)),
      Response(200, "OK", Json(JsonObject(<<Entry("openai", JsonNull)>>))),
      Response(200, "OK", Json(JsonObject(<<>>))),
      Response(200, "OK",
               Json(JsonObject(<<Entry("openai", ProviderResponse(Some("OpenAI"), KeySet)),
                                 Entry("cohere", ProviderResponse(Some("Cohere"), KeyUnset))>>))),
      Response(200, "OK",
               Json(JsonObject(<<Entry("azure", ProviderResponse(Some("Hosted"), KeySet)),
                                 Entry("openai", ProviderResponse(Some("Hosted"), KeySet)),
                                 Entry("cohere", ProviderResponse(None, None))>>))) }

\* Raw catalog entries of SpecCatalog: details absent, or each of its four
\* fields absent, empty or filled, independently.
Ids == {"openai", "cohere"}
RawDetails ==
    { Details(n, d, m, k) :
        n \in {None, Some(""), Some("OpenAI")},
        d \in {None, Some(""), Some("GPT models")},
        m \in {None, Some(<<"gpt-4">>)},
        k \in {None, Some(<<>>)} }
RawItems == { RawItem(id, d) : id \in Ids, d \in {None} \cup {Some(x) : x \in RawDetails} }
RichCatalogResponses ==
    { Response(200, "OK", Json(JsonArray(items))) : items \in SeqsUpTo(RawItems, MaxItems) }

\* Secrets-status mappings of SpecSecrets: the keys of a JSON object are
\* distinct; each entry has a name absent, empty or filled and a
\* secret_status absent, empty or with one or two keys.
EntryKeys == {"openai", "cohere", "azure"}
ProviderResponses ==
    { ProviderResponse(n, s) :
        n \in {None, Some(""), Some("OpenAI"), Some("Cohere")},
        s \in {None, Some(<<>>),
               Some(<<SecretStatus("KEY1", FALSE)>>),
               Some(<<SecretStatus("KEY1", TRUE)>>),
               Some(<<SecretStatus("KEY1", FALSE), SecretStatus("KEY2", TRUE)>>)} }
Mappings ==
    { m \in SeqsUpTo({Entry(k, v) : k \in EntryKeys, v \in ProviderResponses}, MaxEntries) :
        \A i, j \in 1..Len(m) : i # j => m[i].key # m[j].key }
RichSecretsResponses == { Response(200, "OK", Json(JsonObject(m))) : m \in Mappings }
BaselineCatalogResponses ==
    { Response(200, "OK", Json(JsonArray(<<OpenAiItem, CohereItem>>))) }

\* ---------------------------------------------------------- specifications
\* Concurrent invocations of getActiveProviders.
Next ==
    \E p \in Inv :
        \/ Call(p)
        \/ ProvidersFetched(p, CatalogResponses)
        \/ SecretsResumes(p)
        \/ SecretsFetched(p, SecretsResponses)
        \/ ActiveResumes(p)

Spec == Init /\ [][Next]_vars

\* getProvidersList over every catalog body of up to MaxItems entries.
NextCatalog ==
    \/ Call(1)
    \/ ProvidersFetched(1, RichCatalogResponses)

SpecCatalog == Init /\ [][NextCatalog]_vars

\* One invocation over every secrets-status mapping of up to MaxEntries entries.
NextSecrets ==
    \/ Call(1)
    \/ ProvidersFetched(1, BaselineCatalogResponses)
    \/ SecretsResumes(1)
    \/ SecretsFetched(1, RichSecretsResponses)
    \/ ActiveResumes(1)

SpecSecrets == Init /\ [][NextSecrets]_vars

\* ------------------------------------------------------------------ claims
\* Helpers of the statements below, written on the answers themselves.
Succeeded(r) == r.type = "response" /\ r.status \in 200..299
NonSuccess(r) == r.type = "response" /\ r.status \notin 200..299
GetStepFailed(r) ==
    \/ r.type = "reject"
    \/ NonSuccess(r)
    \/ r.body.json = "invalid"
    \/ r.body.value.t # "array"
    \/ \E i \in 1..Len(r.body.value.items) : r.body.value.items[i].t = "null"
PostStepFailed(r) ==
    \/ r.type = "reject"
    \/ NonSuccess(r)
    \/ r.body.json = "invalid"
    \/ r.body.value.t # "object"
    \/ \E i \in 1..Len(r.body.value.entries) : r.body.value.entries[i].value.t = "null"
ChainFailed(p) ==
    \/ response[p] # None /\ GetStepFailed(response[p][1])
    \/ secretsResponse[p] # None /\ PostStepFailed(secretsResponse[p][1])
HasHeader(req, name) == \E h \in req.headers : h[1] = name

\* C1: getActiveProviders never fails outward: no error ever reaches its
\* caller; every completed invocation returns a sequence of names, and the
\* sequence is empty whenever a step of the chain failed (network failure,
\* non-success status, unparsable or misshapen body, on either endpoint).
C1_NeverFailsOutward ==
    \A p \in Inv :
        /\ activeResult[p].kind # "error"
        /\ pc[p] = "done" =>
              /\ activeResult[p].kind = "value"
              /\ activeResult[p].value \in Seq(STRING)
              /\ ChainFailed(p) => activeResult[p].value = <<>> /\ errorLogged[p]

C1_Witness ==
    \E p, q \in Inv :
        /\ pc[p] = "done" /\ secretsResponse[p] # None /\ ChainFailed(p)
        /\ pc[q] = "done" /\ secretsResponse[q] = None /\ ChainFailed(q)

\* C5: an invocation issues exactly one GET /agent/providers and then at most
\* one POST /secrets/providers, never a request twice; the POST is issued
\* only after the GET returned success and its body was parsed and
\* normalized; if the GET step fails no POST is issued and getSecretsSettings
\* fails with that same error.
C5_OneGetThenAtMostOnePost ==
    \A p \in Inv :
        /\ pc[p] = "idle" => sent[p] = <<>>
        /\ pc[p] # "idle" =>
              /\ Len(sent[p]) \in {1, 2}
              /\ sent[p][1].method = "GET" /\ sent[p][1].url = "/agent/providers"
        /\ Len(sent[p]) = 2 =>
              /\ sent[p][2].method = "POST" /\ sent[p][2].url = "/secrets/providers"
              /\ response[p] # None /\ ~GetStepFailed(response[p][1])
              /\ listResult[p].kind = "value"
        /\ (response[p] # None /\ GetStepFailed(response[p][1])) =>
              /\ Len(sent[p]) = 1
              /\ listResult[p].kind = "error"
              /\ secretsResult[p].kind # "value"
              /\ pc[p] \in {"settled", "done"} =>
                    /\ secretsResult[p].kind = "error"
                    /\ secretsResult[p].error = listResult[p].error

C5_Witness ==
    \E p, q \in Inv :
        /\ pc[p] = "done" /\ Len(sent[p]) = 2
        /\ pc[q] = "done" /\ Len(sent[q]) = 1 /\ secretsResult[q].kind = "error"

\* C6: a non-success status yields an error and no value: getProvidersList
\* fails with an Error whose message carries the status text, whatever the
\* body (it is not parsed); getSecretsSettings fails with an Error with the
\* fixed message "Failed to fetch secrets", whatever the status.
C6_NonSuccessStatus ==
    \A p \in Inv :
        /\ (response[p] # None /\ NonSuccess(response[p][1])) =>
              /\ listResult[p].kind = "error"
              /\ listResult[p].error.class = "Error"
              /\ listResult[p].error.message =
                    "Failed to fetch providers: " \o response[p][1].statusText
        /\ (secretsResponse[p] # None /\ NonSuccess(secretsResponse[p][1])) =>
              /\ secretsResult[p].kind = "error"
              /\ secretsResult[p].error.class = "Error"
              /\ secretsResult[p].error.message = "Failed to fetch secrets"

C6_Witness ==
    \E p, q \in Inv :
        /\ response[p] # None /\ NonSuccess(response[p][1])
        /\ response[p][1].body.json = "invalid"
        /\ secretsResponse[q] # None /\ NonSuccess(secretsResponse[q][1])

\* C7: the POST carries the X-Secret-Key header and a body whose providers
\* are exactly the ids of the records getProvidersList returned to this
\* invocation: same length, same order, repeated ids and ids of entries
\* without details included; the GET carries no secret header.
C7_PostBodyIsTheIds ==
    \A p \in Inv :
        /\ \A i \in 1..Len(sent[p]) :
              sent[p][i].method = "GET" => ~HasHeader(sent[p][i], "X-Secret-Key")
        /\ Len(sent[p]) = 2 =>
              /\ <<"X-Secret-Key", getSecretKey>> \in sent[p][2].headers
              /\ sent[p][2].body # None
              /\ LET ids == sent[p][2].body[1].providers
                     list == listResult[p].value
                 IN  /\ Len(ids) = Len(list)
                     /\ \A i \in 1..Len(list) : ids[i] = list[i].id

C7_Witness ==
    \E p \in Inv :
        /\ Len(sent[p]) = 2
        /\ sent[p][2].body[1].providers = <<"cohere", "openai", "cohere">>

\* What an invocation that received the POST answer r must return, from r alone.
FromSecretsAnswer(r) ==
    IF PostStepFailed(r) THEN Return(<<>>) ELSE filterActive(r.body.value)
\* The variables of invocation p.
Locals(p) ==
    <<pc[p], sent[p], response[p], listResult[p], secretsResponse[p],
      secretsResult[p], activeResult[p], errorLogged[p]>>

\* C8: concurrent invocations are independent: each issues its own GET and its
\* own POST, the ids of its POST body are those of its own GET answer, its
\* result is computed from its own POST answer (or is [] when its own GET
\* failed), and no step changes the data of two invocations.
C8_Independent ==
    /\ [](\A p \in Inv :
            /\ pc[p] # "idle" => sent[p][1] = GetRequest
            /\ pc[p] \in {"fetchingSecrets", "settled", "done"} /\ ~GetStepFailed(response[p][1])
                  => /\ Len(sent[p]) = 2
                     /\ LET items == response[p][1].body.value.items
                            ids == sent[p][2].body[1].providers
                        IN  /\ Len(ids) = Len(items)
                            /\ \A i \in 1..Len(items) : ids[i] = items[i].id
            /\ pc[p] = "done" =>
                  activeResult[p] = IF secretsResponse[p] = None THEN Return(<<>>)
                                    ELSE FromSecretsAnswer(secretsResponse[p][1]))
    /\ [][\A p, q \in Inv : p # q => Locals(p)' = Locals(p) \/ Locals(q)' = Locals(q)]_vars

C8_Witness ==
    \E p, q \in Inv :
        /\ pc[p] = "fetchingSecrets" /\ pc[q] = "fetchingSecrets"
        /\ sent[p][2].body[1].providers # sent[q][2].body[1].providers
        /\ Len(sent[p][2].body[1].providers) > 0
        /\ Len(sent[q][2].body[1].providers) > 0

\* C9: idempotence: two invocations that the backend answers identically (the
\* same GET answer, and the same POST answer or both none) get equal
\* outcomes from getProvidersList, getSecretsSettings and getActiveProviders,
\* error outcomes included; nothing an invocation leaves behind changes another.
C9_Idempotent ==
    \A p, q \in Inv :
        /\ (response[p] # None /\ response[p] = response[q]) =>
              listResult[p] = listResult[q]
        /\ (response[p] # None /\ response[p] = response[q]
              /\ secretsResponse[p] = secretsResponse[q]
              /\ pc[p] \in {"settled", "done"} /\ pc[q] \in {"settled", "done"}) =>
              secretsResult[p] = secretsResult[q]
        /\ (response[p] = response[q] /\ secretsResponse[p] = secretsResponse[q]
              /\ pc[p] = "done" /\ pc[q] = "done") =>
              activeResult[p] = activeResult[q]

C9_Witness ==
    \E p, q \in Inv :
        /\ p # q /\ pc[p] = "done" /\ pc[q] = "done"
        /\ response[p] = response[q] /\ secretsResponse[p] = secretsResponse[q]
        /\ secretsResponse[p] # None
        /\ activeResult[p].value # <<>>

\* An entry of the secrets-status mapping has a key that is set.
Qualifies(v) ==
    /\ v.secret_status # None
    /\ \E i \in 1..Len(v.secret_status[1]) : v.secret_status[1][i].is_set = TRUE
\* The place in the result of the i-th entry of mapping m, if it qualifies.
Rank(m, i) == Cardinality({j \in 1..i : Qualifies(m[j].value)})
Qualifying(m) == {i \in 1..Len(m) : Qualifies(m[i].value)}

ChainSucceeded ==
    /\ pc[1] = "done"
    /\ secretsResponse[1] # None
    /\ ~PostStepFailed(secretsResponse[1][1])
ReceivedMapping == secretsResponse[1][1].body.value.entries

\* C2, as claimed: on success an entry's display name, its name or "Unknown
\* Provider" if the name is absent, is in the result if and only if one of
\* its secret_status values has is_set true.
C2_AsClaimed ==
    ChainSucceeded =>
        LET m == ReceivedMapping
            names == activeResult[1].value
        IN  /\ Len(names) = Cardinality(Qualifying(m))
            /\ \A i \in Qualifying(m) :
                  names[Rank(m, i)] = IF m[i].value.name = None THEN "Unknown Provider"
                                      ELSE m[i].value.name[1]

\* C2, amended: on success an entry's display name, its name or "Unknown
\* Provider" if the name is absent or the empty string, is in the result if
\* and only if one of its secret_status values has is_set true; an entry with
\* secret_status absent, empty or all unset contributes nothing.
C2_ActiveNames ==
    ChainSucceeded =>
        LET m == ReceivedMapping
            names == activeResult[1].value
        IN  /\ Len(names) = Cardinality(Qualifying(m))
            /\ \A i \in Qualifying(m) :
                  names[Rank(m, i)] =
                      IF m[i].value.name = None \/ m[i].value.name[1] = ""
                      THEN "Unknown Provider" ELSE m[i].value.name[1]

C2_Witness ==
    /\ ChainSucceeded
    /\ Len(ReceivedMapping) = 2
    /\ ReceivedMapping[1].value.secret_status = None
    /\ ReceivedMapping[1].value.name = Some("Cohere")
    /\ Qualifies(ReceivedMapping[2].value)
    /\ ReceivedMapping[2].value.name = Some("")
    /\ activeResult[1].value = <<"Unknown Provider">>

\* The catalog a successful getProvidersList of invocation 1 received.
Listed == pc[1] = "listed" /\ listResult[1].kind = "value"
ReceivedItems == response[1][1].body.value.items
AllPresent(item) ==
    /\ item.details # None
    /\ \A f \in {"name", "description", "models", "required_keys"} :
          item.details[1][f] # None

\* C3, as claimed: an entry with all four detail fields present, whatever
\* their values, maps to a record with id, name, description, models and
\* requiredKeys equal to the source values, no default substituted.
C3_AsClaimed ==
    Listed =>
        \A i \in 1..Len(ReceivedItems) :
            AllPresent(ReceivedItems[i]) =>
                LET d == ReceivedItems[i].details[1]
                    rec == listResult[1].value[i]
                IN  /\ rec.id = ReceivedItems[i].id
                    /\ rec.name = d.name[1]
                    /\ rec.description = d.description[1]
                    /\ rec.models = d.models[1]
                    /\ rec.requiredKeys = d.required_keys[1]

\* C3, amended: an entry with all four detail fields present and a non-empty
\* name and description maps to a record with every field equal to the
\* source value, an empty models or required_keys sequence included; a
\* present but empty name or description is replaced by its default.
C3_RoundTrip ==
    Listed =>
        \A i \in 1..Len(ReceivedItems) :
            AllPresent(ReceivedItems[i]) =>
                LET d == ReceivedItems[i].details[1]
                    rec == listResult[1].value[i]
                IN  /\ rec.id = ReceivedItems[i].id
                    /\ rec.name = IF d.name[1] = "" THEN "Unknown Provider" ELSE d.name[1]
                    /\ rec.description = IF d.description[1] = ""
                                         THEN "No description available."
                                         ELSE d.description[1]
                    /\ rec.models = d.models[1]
                    /\ rec.requiredKeys = d.required_keys[1]

C3_Witness ==
    /\ Listed
    /\ \E i \in 1..Len(ReceivedItems) :
          /\ AllPresent(ReceivedItems[i])
          /\ ReceivedItems[i].details[1].name = Some("OpenAI")
          /\ ReceivedItems[i].details[1].description = Some("GPT models")
          /\ ReceivedItems[i].details[1].required_keys = Some(<<>>)
          /\ listResult[1].value[i].models = <<"gpt-4">>

\* The value of field f of a record made from item, were every present
\* field kept and every absent one defaulted.
KeepPresent(item, f, default) ==
    IF item.details = None \/ item.details[1][f] = None THEN default
    ELSE item.details[1][f][1]
\* The same, an empty string counting as absent.
KeepNonEmpty(item, f, default) ==
    IF item.details = None \/ item.details[1][f] = None THEN default
    ELSE IF item.details[1][f][1] = "" THEN default
    ELSE item.details[1][f][1]

\* C4, as claimed: one record per raw entry, in the server's order, defaults
\* applied per field: each absent field takes its default, each present
\* field keeps its source value.
C4_AsClaimed ==
    Listed =>
        /\ Len(listResult[1].value) = Len(ReceivedItems)
        /\ \A i \in 1..Len(ReceivedItems) :
              LET item == ReceivedItems[i]
                  rec == listResult[1].value[i]
              IN  /\ rec.id = item.id
                  /\ rec.name = KeepPresent(item, "name", "Unknown Provider")
                  /\ rec.description =
                        KeepPresent(item, "description", "No description available.")
                  /\ rec.models = KeepPresent(item, "models", <<>>)
                  /\ rec.requiredKeys = KeepPresent(item, "required_keys", <<>>)

\* C4, amended: one record per raw entry, in the server's order, defaults
\* applied per field: a missing details object gives all four defaults; a
\* name or description that is absent or the empty string takes its default,
\* an absent models or required_keys takes []; every other present field
\* keeps its source value.
C4_DefaultsPerField ==
    Listed =>
        /\ Len(listResult[1].value) = Len(ReceivedItems)
        /\ \A i \in 1..Len(ReceivedItems) :
              LET item == ReceivedItems[i]
                  rec == listResult[1].value[i]
              IN  /\ rec.id = item.id
                  /\ rec.name = KeepNonEmpty(item, "name", "Unknown Provider")
                  /\ rec.description =
                        KeepNonEmpty(item, "description", "No description available.")
                  /\ rec.models = KeepPresent(item, "models", <<>>)
                  /\ rec.requiredKeys = KeepPresent(item, "required_keys", <<>>)

C4_Witness ==
    /\ Listed
    /\ Len(ReceivedItems) = 2
    /\ ReceivedItems[1].id = "cohere" /\ ReceivedItems[1].details = None
    /\ ReceivedItems[2].id = "openai" /\ ReceivedItems[2].details # None
    /\ ReceivedItems[2].details[1].name = Some("OpenAI")
    /\ ReceivedItems[2].details[1].description = None
    /\ listResult[1].value[1].name = "Unknown Provider"
    /\ listResult[1].value[2].description = "No description available."
    /\ listResult[1].value[2].name = "OpenAI"

====
